---- MODULE Spec2Model ----
(***************************************************************************)
(* The batch samplers of kgpy (src/kgpy/sampling.py): the abstract Sampler *)
(* with its index, and the two concrete samplers One_to_K (pairwise        *)
(* negative sampling) and One_to_N (multi-label "1-to-N").                 *)
(*                                                                         *)
(* One sampler object is modelled.  Its attributes are the variables; the  *)
(* initial states are the states a constructor call leaves behind, and the *)
(* actions are the public calls reset(), __iter__() and __next__().        *)
(***************************************************************************)
EXTENDS Integers, Sequences, FiniteSets, TLC

VARIABLES
    cls,            \* "One_to_K" or "One_to_N": the class of the object
    bs,             \* self.bs
    num_ents,       \* self.num_ents
    inverse,        \* self.inverse
    num_negative,   \* self.num_negative (One_to_K only; 0 stands for "no such attribute")
    triplets,       \* self.triplets, a list of (head, relation, tail)
    index,          \* self.index, a defaultdict(list), as the mapping key -> list it holds
    keys,           \* self.keys
    has_trip_iter,  \* whether the attribute self.trip_iter exists yet
    trip_iter,      \* self.trip_iter (meaningful when has_trip_iter)
    ret,            \* what the last call did: its name, what it raised, what it returned
    triplets0,      \* history: the triplets argument as passed to the constructor
    index0,         \* history: self.index as _build_index left it
    keys0           \* history: list(self.index.keys()) of line 26, before any shuffle

vars == <<cls, bs, num_ents, inverse, num_negative, triplets, index, keys,
          has_trip_iter, trip_iter, ret, triplets0, index0, keys0>>

(***************************************************************************)
(* Bounds of the model.                                                    *)
(***************************************************************************)
MaxTriplets == 2    \* longest triplet list passed to a constructor
MaxBs == 2          \* largest batch_size
MaxNeg == 2         \* largest num_negative

Entities == {0, 1}          \* entity ids of the data
Relations == {0}            \* relation ids of the data
NumEnts == Cardinality(Entities)

TripletUniverse == {<<h, r, t>> : h \in Entities, r \in Relations, t \in Entities}

RECURSIVE SeqsUpTo(_, _)
\* every sequence over S of length 0..n
SeqsUpTo(S, n) ==
    IF n <= 0 THEN {<<>>}
    ELSE LET shorter == SeqsUpTo(S, n - 1)
         IN  shorter \cup {Append(s, x) : s \in {q \in shorter : Len(q) = n - 1}, x \in S}

(***************************************************************************)
(* Python values and built-ins.                                            *)
(***************************************************************************)
\* An element of a key is a Python int or a Python str; the two never compare equal.
PyInt(n) == <<"int", n>>
PyStr(s) == <<"str", s>>
IsStr(v) == v[1] = "str"

Range(s) == {s[i] : i \in DOMAIN s}
PyMin(a, b) == IF a <= b THEN a ELSE b
PyMax(a, b) == IF a >= b THEN a ELSE b

\* s[a:b] with Python's treatment of negative and out-of-range bounds (0-based, b excluded)
PySlice(s, a, b) ==
    LET n  == Len(s)
        lo == IF a < 0 THEN PyMax(a + n, 0) ELSE PyMin(a, n)
        hi == IF b < 0 THEN PyMax(b + n, 0) ELSE PyMin(b, n)
    IN  IF hi <= lo THEN <<>> ELSE SubSeq(s, lo + 1, hi)

\* a // b for b # 0 (Python rounds towards minus infinity)
PyFloorDiv(a, b) == IF b > 0 THEN a \div b ELSE (-a) \div (-b)

RECURSIVE SortedList(_)
\* the elements of a finite set of integers in ascending order
SortedList(S) ==
    IF S = {} THEN <<>>
    ELSE LET m == CHOOSE x \in S : \A y \in S : x <= y
         IN  <<m>> \o SortedList(S \ {m})

\* list(set(v)): CPython iterates a set of small non-negative ints in ascending order
ListOfSet(v) == SortedList(Range(v))

\* np.random.shuffle(s): s afterwards is any permutation of s
Shuffles(s) == {[i \in DOMAIN s |-> s[p[i]]] : p \in Permutations(DOMAIN s)}

(***************************************************************************)
(* A dict while it is built: a sequence of <<key, value>> in insertion     *)
(* order.  The order of self.index is read once, by list(self.index.keys())*)
(* of line 26; from then on the dict is held as the mapping it is.         *)
(***************************************************************************)
DictKeys(d) == [i \in DOMAIN d |-> d[i][1]]
DictHas(d, k) == \E i \in DOMAIN d : d[i][1] = k
DictGet(d, k) == d[CHOOSE i \in DOMAIN d : d[i][1] = k][2]
DictSet(d, k, v) ==
    IF DictHas(d, k) THEN [i \in DOMAIN d |-> IF d[i][1] = k THEN <<k, v>> ELSE d[i]]
    ELSE Append(d, <<k, v>>)
\* d[k] of a defaultdict(list): a missing key is inserted with an empty list
DefaultGet(d, k) == IF DictHas(d, k) THEN d ELSE Append(d, <<k, <<>>>>)
\* d[k].append(v) of a defaultdict(list)
DictAppend(d, k, v) ==
    LET e == DefaultGet(d, k) IN DictSet(e, k, Append(DictGet(e, k), v))

\* the mapping a dict holds
DictMap(d) == [k \in Range(DictKeys(d)) |-> DictGet(d, k)]
\* a lookup that gives a missing key entity 0 as its one completion
MapDefaultZero(m, k) ==
    IF k \in DOMAIN m THEN m
    ELSE [x \in DOMAIN m \cup {k} |-> IF x = k THEN <<0>> ELSE m[x]]

\* m[k] of a defaultdict(list) held as a mapping: a missing key is inserted
MapDefaultGet(m, k) ==
    IF k \in DOMAIN m THEN m
    ELSE [x \in DOMAIN m \cup {k} |-> IF x = k THEN <<>> ELSE m[x]]

(***************************************************************************)
(* Sampler._build_index                                                    *)
(***************************************************************************)
RECURSIVE _build_lists(_, _, _)
\* the loop of lines 83-88 over the triplets ts, from the dict d
_build_lists(ts, inv, d) ==
    IF ts = <<>> THEN d
    ELSE LET t == Head(ts)
             e == IF inv
                  THEN DictAppend(d, <<PyInt(t[2]), PyInt(t[1])>>, t[3])
                  ELSE DictAppend(
                           DictAppend(d, <<PyStr("head"), PyInt(t[2]), PyInt(t[3])>>, t[1]),
                           <<PyStr("tail"), PyInt(t[2]), PyInt(t[1])>>, t[3])
         IN  _build_lists(Tail(ts), inv, e)

\* as _remove_duplicates, had lines 90-92 been left out
_keep_duplicates(d) == d

\* lines 90-92: every bucket loses its duplicates
_remove_duplicates(d) == [i \in DOMAIN d |-> <<d[i][1], ListOfSet(d[i][2])>>]

_build_index(ts, inv) == _remove_duplicates(_build_lists(ts, inv, <<>>))

(***************************************************************************)
(* The result of a call.                                                   *)
(***************************************************************************)
Result(op, raised) ==
    [op |-> op, raised |-> raised,
     batch_keys |-> <<>>,      \* One_to_N: the slice of self.keys (line 279)
     batch_samples |-> <<>>,   \* the batch after its conversion to an array
     neg_samples |-> <<>>,     \* One_to_K: the corrupted triplets
     batch_ix |-> <<>>, batch_lbls |-> <<>>, trip_type |-> <<>>]

(***************************************************************************)
(* Construction.                                                           *)
(***************************************************************************)
\* as _shuffle, had it drawn every place from the list anew (with replacement)
_shuffle_with_replacement(s) == [DOMAIN s -> Range(s)]

\* One_to_K._shuffle / One_to_N._shuffle: the orders the shuffled list may have
_shuffle(s) == Shuffles(s)

\* The state after c(ts, b, n, device, [k,] inv) has returned
Constructed(c, ts, b, n, k, inv) ==
    /\ cls = c
    /\ bs = b
    /\ num_ents = n
    /\ inverse = inv
    /\ num_negative = (IF c = "One_to_K" THEN k ELSE 0)
    /\ triplets0 = ts
    /\ index = DictMap(_build_index(ts, inv))
    /\ index0 = index
    /\ keys0 = DictKeys(_build_index(ts, inv))
    /\ IF c = "One_to_K"
       THEN triplets \in _shuffle(ts) /\ keys = keys0
       ELSE triplets = ts /\ keys \in _shuffle(keys0)
    /\ has_trip_iter = FALSE
    /\ trip_iter = 0
    /\ ret = Result("init", "none")

Classes == {"One_to_K", "One_to_N"}
NegativeCounts(c) == IF c = "One_to_K" THEN 1 .. MaxNeg ELSE {0}

\* Samplers built as the interface asks: a non-empty list, batch_size > 0, ids below num_ents
Init ==
    \E c \in Classes, ts \in SeqsUpTo(TripletUniverse, MaxTriplets) \ {<<>>},
       b \in 1 .. MaxBs, inv \in BOOLEAN :
        \E k \in NegativeCounts(c) : Constructed(c, ts, b, NumEnts, k, inv)

\* Samplers built with any arguments the constructors accept, which is all of them:
\* also an empty list, batch_size 0, num_ents below the ids or 0
InitAny ==
    \E c \in Classes, ts \in SeqsUpTo(TripletUniverse, MaxTriplets),
       b \in 0 .. MaxBs, n \in 0 .. NumEnts, inv \in BOOLEAN :
        \E k \in NegativeCounts(c) : Constructed(c, ts, b, n, k, inv)

(***************************************************************************)
(* Sampler.__init__ on its own: from the state in which lines 19-23 have   *)
(* stored the arguments, lines 25-26 build the index and read its keys.    *)
(***************************************************************************)
IndexEntities == {0, 1, 2}
IndexRelations == {0, 1}
IndexUniverse ==
    {<<h, r, t>> : h \in IndexEntities, r \in IndexRelations, t \in IndexEntities}
MaxIndexTriplets == 3   \* longest triplet list whose index is built

InitIndex ==
    \E ts \in SeqsUpTo(IndexUniverse, MaxIndexTriplets), inv \in BOOLEAN :
        /\ cls = "One_to_N"
        /\ bs = 1
        /\ num_ents = Cardinality(IndexEntities)
        /\ inverse = inv
        /\ num_negative = 0
        /\ triplets = ts
        /\ triplets0 = ts
        /\ index = <<>>
        /\ index0 = <<>>
        /\ keys = <<>>
        /\ keys0 = <<>>
        /\ has_trip_iter = FALSE
        /\ trip_iter = 0
        /\ ret = Result("enter", "none")

Sampler__init__ ==
    /\ ret.op = "enter"
    /\ index' = DictMap(_build_index(triplets, inverse))
    /\ keys' = DictKeys(_build_index(triplets, inverse))
    /\ index0' = index'
    /\ keys0' = keys'
    /\ ret' = Result("init", "none")
    /\ UNCHANGED <<cls, bs, num_ents, inverse, num_negative, triplets,
                   has_trip_iter, trip_iter, triplets0>>

NextIndex == Sampler__init__

SpecIndex == InitIndex /\ [][NextIndex]_vars

(***************************************************************************)
(* Sampler.reset and Sampler.__iter__                                      *)
(***************************************************************************)
reset ==
    /\ has_trip_iter' = TRUE
    /\ trip_iter' = 0
    /\ IF cls = "One_to_K"
       THEN triplets' \in _shuffle(triplets) /\ keys' = keys
       ELSE keys' \in _shuffle(keys) /\ triplets' = triplets
    /\ ret' = Result("reset", "none")
    /\ UNCHANGED <<cls, bs, num_ents, inverse, num_negative, index, triplets0, index0, keys0>>

__iter__ ==
    /\ has_trip_iter' = TRUE
    /\ trip_iter' = 0
    /\ ret' = Result("iter", "none")
    /\ UNCHANGED <<cls, bs, num_ents, inverse, num_negative, triplets, index, keys,
                   triplets0, index0, keys0>>

(***************************************************************************)
(* Conversions between lists, numpy arrays and torch tensors.              *)
(***************************************************************************)
Float32Mantissa == 16777216     \* 2^24: a float32 holds every integer up to it exactly

RECURSIVE Float32Step(_, _)
\* the spacing of the float32 values around n >= 0
Float32Step(n, step) ==
    IF n \div step < Float32Mantissa THEN step ELSE Float32Step(n, 2 * step)

\* the float32 nearest to the integer n (ties to the even mantissa)
Float32(n) ==
    LET a    == IF n < 0 THEN -n ELSE n
        step == Float32Step(a, 1)
        q    == a \div step
        r    == a % step
        up   == IF 2 * r > step THEN TRUE
                ELSE IF 2 * r < step THEN FALSE
                ELSE q % 2 = 1
        m    == (IF up THEN q + 1 ELSE q) * step
    IN  IF n < 0 THEN -m ELSE m

\* torch.Tensor(rows).long() of rows of numbers: through float32, then to int64
TensorLong(rows) == [i \in DOMAIN rows |-> [j \in DOMAIN rows[i] |-> Float32(rows[i][j])]]

\* np.array(rows) of rows of Python values: the array has one dtype, and an int
\* next to a str becomes its decimal text
np_array(rows) ==
    LET mixed == \E i \in DOMAIN rows : \E j \in DOMAIN rows[i] : IsStr(rows[i][j])
    IN  [i \in DOMAIN rows |->
            [j \in DOMAIN rows[i] |->
                IF mixed /\ ~IsStr(rows[i][j])
                THEN PyStr(ToString(rows[i][j][2]))
                ELSE rows[i][j]]]

\* the number a str or int element stands for: astype(np.float) of "12" is 12.0
\* (np.float is the alias of float that numpy had up to version 1.23)
IdValues == Entities \cup Relations
AsFloat(v) == IF IsStr(v) THEN CHOOSE n \in IdValues : ToString(n) = v[2] ELSE v[2]

(***************************************************************************)
(* Sampler._get_labels                                                     *)
(***************************************************************************)
RECURSIVE _label_rows(_, _, _, _)
\* the loop of lines 112-114 over the rows left, from the mapping d and the rows
\* y already filled; the lookup inserts a missing key
_label_rows(d, rows, n_ents, y) ==
    IF rows = <<>> THEN [index |-> d, y |-> y, raised |-> "none"]
    ELSE LET x    == Head(rows)
             e    == MapDefaultGet(d, x)
             lbls == e[x]
         IN  IF \E j \in DOMAIN lbls : lbls[j] >= n_ents \/ lbls[j] < -n_ents
             THEN [index |-> e, y |-> <<>>, raised |-> "IndexError"]
             ELSE _label_rows(e, Tail(rows), n_ents,
                     Append(y, [c \in 1 .. n_ents |->
                                   IF \E j \in DOMAIN lbls : lbls[j] % n_ents = c - 1
                                   THEN 1 ELSE 0]))

\* [index |-> self.index afterwards, y |-> the label matrix, raised |-> the exception]
_get_labels(d, samples, n_ents) ==
    IF n_ents < 0 THEN [index |-> d, y |-> <<>>, raised |-> "RuntimeError"]
    ELSE _label_rows(d, samples, n_ents, <<>>)

(***************************************************************************)
(* One_to_K                                                                *)
(***************************************************************************)
One_to_K__len__ == PyFloorDiv(Len(triplets), bs)

\* the position moved on by batch_size without the constraint to len(triplets)
One_to_K_increment_unclamped == trip_iter + bs

One_to_K_increment_iter == PyMin(trip_iter + bs, Len(triplets))

\* utils.randint_exclude(low, high, exclude): the values it may return
randint_exclude(low, high, exclude) == {x \in low .. high - 1 : x # exclude}

\* as head_tail_choices, had line 194 drawn from every index of the triplet
any_index_choices == {0, 1, 2}

\* random.choice([0, 2]) of line 194
head_tail_choices == {0, 2}

\* lines 193-195: the triplets new_triplet may be for the sample t
_corrupt(t, n_ents) ==
    UNION {{[t EXCEPT ![head_tail + 1] = x] :
               x \in randint_exclude(0, n_ents, t[head_tail + 1])} :
           head_tail \in head_tail_choices}

RECURSIVE Product(_)
\* the sequences that take their i-th element from the i-th set of cs
Product(cs) ==
    IF cs = <<>> THEN {<<>>}
    ELSE {<<h>> \o t : h \in Head(cs), t \in Product(Tail(cs))}

RECURSIVE Repeat(_, _)
\* xs, k times over
Repeat(xs, k) == IF k <= 0 THEN <<>> ELSE xs \o Repeat(xs, k - 1)

RECURSIVE _corruption_order_by_sample(_, _)
\* as _corruption_order, had the two loops been nested the other way round
_corruption_order_by_sample(per_sample, k) ==
    IF per_sample = <<>> THEN <<>>
    ELSE Repeat(<<Head(per_sample)>>, k) \o _corruption_order_by_sample(Tail(per_sample), k)

\* the inner loop (line 191) gives one corruption per sample, in the samples'
\* order; the outer loop (line 190) does that num_negative times
_corruption_order(per_sample, k) == Repeat(per_sample, k)

\* the outcomes of _sample_negative(samples): what it raised and the stacked list
_sample_negative(samples, k, n_ents) ==
    LET per_sample == [i \in DOMAIN samples |-> _corrupt(samples[i], n_ents)]
        slots      == _corruption_order(per_sample, k)
        no_choice  == \E i \in DOMAIN samples : \E head_tail \in head_tail_choices :
                          randint_exclude(0, n_ents, samples[i][head_tail + 1]) = {}
    IN  IF slots = <<>>
        THEN {[raised |-> "RuntimeError", neg |-> <<>>]}    \* torch.stack of no tensor
        ELSE {[raised |-> "none", neg |-> s] : s \in Product(slots)}
             \cup (IF no_choice THEN {[raised |-> "InvalidBatch", neg |-> <<>>]} ELSE {})

One_to_K__next__ ==
    IF trip_iter >= Len(triplets) - 1
    THEN /\ ret' = Result("next", "StopIteration")
         /\ UNCHANGED <<trip_iter, index>>
    ELSE LET batch == PySlice(triplets, trip_iter,
                              PyMin(trip_iter + bs, Len(triplets)))
             batch_samples == TensorLong(batch)
         IN  \E out \in _sample_negative(batch_samples, num_negative, num_ents) :
                IF out.raised # "none"
                THEN /\ ret' = Result("next", out.raised)
                     /\ UNCHANGED <<trip_iter, index>>
                ELSE /\ ret' = [Result("next", "none") EXCEPT
                                   !.batch_samples = batch_samples,
                                   !.neg_samples = out.neg]
                     /\ trip_iter' = One_to_K_increment_iter
                     /\ UNCHANGED index

(***************************************************************************)
(* One_to_N                                                                *)
(***************************************************************************)
One_to_N__len__ == PyFloorDiv(Cardinality(DOMAIN index), bs)

\* the position moved on by batch_size without the constraint to len(keys)
One_to_N_increment_unclamped == trip_iter + bs

One_to_N_increment_iter == PyMin(trip_iter + bs, Len(keys))

One_to_N__next__ ==
    IF trip_iter >= Len(keys) - 1
    THEN /\ ret' = Result("next", "StopIteration")
         /\ UNCHANGED <<trip_iter, index>>
    ELSE LET batch_keys == PySlice(keys, trip_iter, PyMin(trip_iter + bs, Len(keys)))
             batch_samples == np_array(batch_keys)
             lab == _get_labels(index, batch_samples, num_ents)
         IN  /\ trip_iter' = One_to_N_increment_iter
             /\ IF inverse
                THEN /\ index' = lab.index
                     /\ ret' = IF lab.raised # "none" THEN Result("next", lab.raised)
                               ELSE [Result("next", "none") EXCEPT
                                        !.batch_keys = batch_keys,
                                        !.batch_samples = batch_samples,
                                        !.batch_ix = TensorLong(
                                            [i \in DOMAIN batch_samples |->
                                                [j \in DOMAIN batch_samples[i] |->
                                                    batch_samples[i][j][2]]]),
                                        !.batch_lbls = lab.y]
                ELSE IF batch_samples = <<>>
                THEN \* an empty array has one axis: batch_samples[:, 0] fails
                     /\ index' = index
                     /\ ret' = Result("next", "IndexError")
                ELSE /\ index' = lab.index
                     /\ ret' = IF lab.raised # "none" THEN Result("next", lab.raised)
                               ELSE [Result("next", "none") EXCEPT
                                        !.batch_keys = batch_keys,
                                        !.batch_samples = batch_samples,
                                        !.trip_type =
                                            [i \in DOMAIN batch_samples |->
                                                batch_samples[i][1]],
                                        !.batch_ix = TensorLong(
                                            [i \in DOMAIN batch_samples |->
                                                [j \in 1 .. Len(batch_samples[i]) - 1 |->
                                                    AsFloat(batch_samples[i][j + 1])]]),
                                        !.batch_lbls = lab.y]

(***************************************************************************)
(* The public calls.                                                       *)
(***************************************************************************)
\* len(sampler), for bs # 0
__len__ == IF cls = "One_to_K" THEN One_to_K__len__ ELSE One_to_N__len__

__next__ ==
    /\ IF ~has_trip_iter
       THEN \* self.trip_iter is read before reset() or __iter__() has set it
            /\ ret' = Result("next", "AttributeError")
            /\ UNCHANGED <<trip_iter, index>>
       ELSE IF cls = "One_to_K" THEN One_to_K__next__ ELSE One_to_N__next__
    /\ UNCHANGED <<cls, bs, num_ents, inverse, num_negative, triplets, keys,
                   has_trip_iter, triplets0, index0, keys0>>

Next == reset \/ __iter__ \/ __next__

Spec == Init /\ [][Next]_vars

SpecAny == InitAny /\ [][Next]_vars

\* Samplers with batch sizes beyond the length of short sequences, so that the
\* clamp of _increment_iter and of the slice acts; one negative per positive,
\* the number of negatives having no part in the position.
MaxCursorBs == 3    \* largest batch_size of the samplers whose position is followed

InitCursor ==
    \E c \in Classes, ts \in SeqsUpTo(TripletUniverse, MaxTriplets) \ {<<>>},
       b \in 1 .. MaxCursorBs, inv \in BOOLEAN :
        Constructed(c, ts, b, NumEnts, 1, inv)

SpecCursor == InitCursor /\ [][Next]_vars

(***************************************************************************)
(* Sampler._get_labels called on its own, on an array of keys that the     *)
(* index holds or does not hold.                                           *)
(***************************************************************************)
MaxLabelTriplets == 1   \* longest triplet list of the samplers it is called on
MaxLabelRows == 1       \* most rows of an array passed to it

\* the keys that can be written over the entities and relations
KeyUniverse ==
    IF inverse
    THEN {<<PyInt(r), PyInt(e)>> : r \in Relations, e \in Entities}
    ELSE {<<PyStr(t), PyInt(r), PyInt(e)>> :
            t \in {"head", "tail"}, r \in Relations, e \in Entities}

InitLabels ==
    \E ts \in SeqsUpTo(TripletUniverse, MaxLabelTriplets) \ {<<>>}, inv \in BOOLEAN :
        Constructed("One_to_N", ts, 1, NumEnts, 0, inv)

Sampler_get_labels ==
    \E ks \in SeqsUpTo(KeyUniverse, MaxLabelRows) :
        LET samples == np_array(ks)
            lab == _get_labels(index, samples, num_ents)
        IN  /\ index' = lab.index
            /\ ret' = [Result("labels", lab.raised) EXCEPT
                          !.batch_samples = samples,
                          !.batch_lbls = lab.y]
            /\ UNCHANGED <<cls, bs, num_ents, inverse, num_negative, triplets, keys,
                           has_trip_iter, trip_iter, triplets0, index0, keys0>>

NextLabels == Sampler_get_labels

SpecLabels == InitLabels /\ [][NextLabels]_vars

(***************************************************************************)
(* Vocabulary of the properties.                                           *)
(***************************************************************************)
\* the sequence the sampler iterates over
Sequence == IF cls = "One_to_K" THEN triplets ELSE keys

\* the number of times x occurs in s
Count(s, x) == Cardinality({i \in DOMAIN s : s[i] = x})
\* s and t hold the same items the same number of times
IsPermutation(s, t) ==
    /\ Len(s) = Len(t)
    /\ \A x \in Range(s) \cup Range(t) : Count(s, x) = Count(t, x)

\* the last call was a __next__() that returned a batch
Returned == ret.op = "next" /\ ret.raised = "none"

\* neg is pos with exactly one of head (index 0) and tail (index 2) replaced,
\* by an entity of [0, n_ents) other than the one it replaces
IsCorruptionOf(neg, pos, n_ents) ==
    /\ Len(neg) = 3
    /\ neg[2] = pos[2]
    /\ \/ neg[1] # pos[1] /\ neg[3] = pos[3] /\ neg[1] \in 0 .. n_ents - 1
       \/ neg[3] # pos[3] /\ neg[1] = pos[1] /\ neg[3] \in 0 .. n_ents - 1

\* s without its i-th item
RemoveAt(s, i) == SubSeq(s, 1, i - 1) \o SubSeq(s, i + 1, Len(s))

(***************************************************************************)
(* C1.  Epoch exhaustion and restart, for batch_size >= 1: a __next__()    *)
(* that returns a batch moves the position forward, so that finitely many  *)
(* return before one raises StopIteration; a __next__() that follows one   *)
(* that raised StopIteration raises it again and leaves the position and   *)
(* the order alone; reset() puts the position at 0, and the __next__()     *)
(* after a reset() returns the batch that starts at index 0 of the         *)
(* sequence.                                                               *)
(***************************************************************************)
C1_EpochExhaustionAndRestart ==
    [][bs >= 1 =>
        /\ (ret'.op = "next" /\ ret'.raised = "none") => trip_iter' > trip_iter
        /\ (ret.op = "next" /\ ret.raised = "StopIteration" /\ ret'.op = "next")
              => /\ ret'.raised = "StopIteration"
                 /\ trip_iter' = trip_iter
                 /\ triplets' = triplets
                 /\ keys' = keys
        /\ ret'.op = "reset" => trip_iter' = 0
        /\ (ret.op = "reset" /\ ret'.op = "next")
              => /\ ret'.raised = "none"
                 /\ IF cls = "One_to_K"
                    THEN ret'.batch_samples # <<>>
                         /\ ret'.batch_samples[1] = triplets[1]
                    ELSE ret'.batch_keys # <<>>
                         /\ ret'.batch_keys[1] = keys[1]
    ]_vars

(***************************************************************************)
(* C2.  Multi-label correctness: in every batch One_to_N.__next__()        *)
(* returns, in inverse and non-inverse mode, labels[i, e] is 1 exactly     *)
(* when e is in the bucket the index built at construction holds for the   *)
(* i-th key of the batch, and 0 otherwise.                                 *)
(***************************************************************************)
C2_MultiLabelCorrect ==
    (cls = "One_to_N" /\ Returned) =>
        /\ Len(ret.batch_lbls) = Len(ret.batch_keys)
        /\ \A i \in DOMAIN ret.batch_keys :
              /\ Len(ret.batch_lbls[i]) = num_ents
              /\ \A e \in 0 .. num_ents - 1 :
                    ret.batch_lbls[i][e + 1] =
                        (IF e \in Range(index0[ret.batch_keys[i]]) THEN 1 ELSE 0)

(***************************************************************************)
(* C3.  Index correctness after construction: in non-inverse mode the      *)
(* bucket of ("tail", r, h) is exactly {t : (h, r, t) in the input} and    *)
(* the bucket of ("head", r, t) is exactly {h : (h, r, t) in the input};   *)
(* in inverse mode the bucket of (r, h) is exactly {t : (h, r, t) in the   *)
(* input}.  The keys are those of the input's triplets, no bucket is       *)
(* empty, no entity is twice in a bucket, and the input with one of its    *)
(* repeated triplets taken out gives the same index.                       *)
(***************************************************************************)
InputTriplets == Range(triplets0)

C3_IndexCorrect ==
    ret.op = "init" =>
        /\ DOMAIN index =
              IF inverse
              THEN {<<PyInt(t[2]), PyInt(t[1])>> : t \in InputTriplets}
              ELSE {<<PyStr("head"), PyInt(t[2]), PyInt(t[3])>> : t \in InputTriplets}
                   \cup {<<PyStr("tail"), PyInt(t[2]), PyInt(t[1])>> : t \in InputTriplets}
        /\ \A k \in DOMAIN index :
              /\ index[k] # <<>>
              /\ \A i, j \in DOMAIN index[k] : index[k][i] = index[k][j] => i = j
              /\ Range(index[k]) =
                    IF inverse
                    THEN {t[3] : t \in {u \in InputTriplets :
                                          u[2] = k[1][2] /\ u[1] = k[2][2]}}
                    ELSE IF k[1] = PyStr("head")
                    THEN {t[1] : t \in {u \in InputTriplets :
                                          u[2] = k[2][2] /\ u[3] = k[3][2]}}
                    ELSE {t[3] : t \in {u \in InputTriplets :
                                          u[2] = k[2][2] /\ u[1] = k[3][2]}}
        /\ \A i \in DOMAIN triplets0 :
              (\E j \in 1 .. i - 1 : triplets0[j] = triplets0[i])
                 => DictMap(_build_index(RemoveAt(triplets0, i), inverse)) = index

\* an index was built from an input that repeats a triplet and that gives one
\* key two completions
C3_Witness ==
    /\ ret.op = "init"
    /\ \E i, j \in DOMAIN triplets0 : i < j /\ triplets0[i] = triplets0[j]
    /\ \E k \in DOMAIN index : Len(index[k]) = 2

(***************************************************************************)
(* C4.  Negative sampling corrupts exactly one position: every negative    *)
(* One_to_K returns has the relation of a positive of the batch and        *)
(* differs from it in exactly one of head and tail; the entity put there   *)
(* is in [0, num_ents) and is not the one it replaces; and the positives   *)
(* returned are the triplets of the list, unmodified.                      *)
(***************************************************************************)
C4_OnePositionCorrupted ==
    (cls = "One_to_K" /\ Returned) =>
        /\ \A n \in DOMAIN ret.neg_samples :
              \E i \in DOMAIN ret.batch_samples :
                  IsCorruptionOf(ret.neg_samples[n], ret.batch_samples[i], num_ents)
        /\ ret.batch_samples =
              SubSeq(triplets, trip_iter - Len(ret.batch_samples) + 1, trip_iter)

\* a batch came back in which one negative has its head replaced and another its tail
C4_Witness ==
    /\ cls = "One_to_K" /\ Returned
    /\ \E n \in DOMAIN ret.neg_samples :
          ret.neg_samples[n][1] # ret.batch_samples[1][1]
    /\ \E n \in DOMAIN ret.neg_samples :
          ret.neg_samples[n][3] # ret.batch_samples[1][3]

(***************************************************************************)
(* C5.  Negative-sampling volume and order: for a batch of b positives     *)
(* and num_negative = k, One_to_K.__next__() returns b*k negatives, and    *)
(* for every repetition j in [0, k) and every i in [0, b) the negative at  *)
(* index j*b + i is a corruption of the positive at index i.               *)
(***************************************************************************)
C5_VolumeAndOrder ==
    (cls = "One_to_K" /\ Returned) =>
        LET b == Len(ret.batch_samples)
            k == num_negative
        IN  /\ Len(ret.neg_samples) = b * k
            /\ \A j \in 0 .. k - 1 : \A i \in 0 .. b - 1 :
                  IsCorruptionOf(ret.neg_samples[j * b + i + 1],
                                 ret.batch_samples[i + 1], num_ents)

\* a batch of two different positives came back with two negatives for each
C5_Witness ==
    /\ cls = "One_to_K" /\ Returned
    /\ Len(ret.batch_samples) = 2
    /\ ret.batch_samples[1] # ret.batch_samples[2]
    /\ num_negative = 2
    /\ Len(ret.neg_samples) = 4

(***************************************************************************)
(* C6.  Batch count: in every reachable state with batch_size >= 1,        *)
(* len(sampler) is floor(N / batch_size), N the length of the sequence     *)
(* iterated over (self.triplets for One_to_K, self.keys for One_to_N).     *)
(***************************************************************************)
C6_LenIsFloorOfLength ==
    bs >= 1 => __len__ = Len(Sequence) \div bs

(***************************************************************************)
(* C7.  Shuffle validity: in every reachable state the sequence iterated   *)
(* over is a permutation of the one given (self.triplets) or derived       *)
(* (self.keys) at construction.                                            *)
(***************************************************************************)
C7_ShuffleIsPermutation ==
    /\ IsPermutation(triplets, triplets0)
    /\ IsPermutation(keys, keys0)

\* reset() has left the iterated sequence in another order than construction gave it
C7_Witness ==
    /\ ret.op = "reset"
    /\ Sequence # (IF cls = "One_to_K" THEN triplets0 ELSE keys0)
    /\ Len(Sequence) >= 2

(***************************************************************************)
(* C8.  The index is read-only after construction: no call adds a key to   *)
(* self.index, removes one or changes a bucket, and the keys of the index  *)
(* are the items of self.keys.                                             *)
(***************************************************************************)
C8_IndexReadOnly ==
    /\ index = index0
    /\ DOMAIN index = Range(keys)

(***************************************************************************)
(* C9.  Invalid configuration is rejected at construction: no sampler on   *)
(* which reset() can be called has batch_size <= 0 or num_ents <= 0, or,   *)
(* for One_to_K, num_ents < 2 (stated for samplers over at least one       *)
(* triplet, which C10 does not speak of).                                  *)
(***************************************************************************)
C9_InvalidConfigurationRejected ==
    (ret.op = "reset" /\ triplets0 # <<>>) =>
        /\ bs > 0
        /\ num_ents > 0
        /\ cls = "One_to_K" => num_ents >= 2

(***************************************************************************)
(* C10.  An empty dataset is rejected at construction: no sampler on       *)
(* which reset() can be called was built from zero triplets (stated for    *)
(* samplers whose batch_size and num_ents are valid, which C9 does not     *)
(* speak of).                                                              *)
(***************************************************************************)
C10_EmptyDatasetRejected ==
    (ret.op = "reset" /\ bs > 0 /\ num_ents >= 2) => triplets0 # <<>>

(***************************************************************************)
(* C11.  Iteration misuse before the first epoch: a __next__() on a        *)
(* sampler on which neither reset() nor __iter__() has run raises          *)
(* StopIteration: it returns no batch and raises no other error.           *)
(***************************************************************************)
C11_NextBeforeResetStops ==
    (ret.op = "next" /\ ~has_trip_iter) => ret.raised = "StopIteration"

(***************************************************************************)
(* C12.  An epoch is restartable only through reset(): a call that takes   *)
(* the position from a later index back to 0 is a reset(), so that no      *)
(* other call makes the items already yielded in the epoch be yielded      *)
(* again (and in the same order).                                          *)
(***************************************************************************)
C12_RestartOnlyByReset ==
    [][(has_trip_iter /\ trip_iter > 0 /\ trip_iter' = 0) => ret'.op = "reset"]_vars

\* the items of the iterated sequence that the batch of the last __next__()
\* stands for: the positive triplets of One_to_K, the keys of One_to_N as the
\* returned query indices (and type flags) give them
YieldedItems ==
    IF cls = "One_to_K" THEN ret.batch_samples
    ELSE IF inverse
    THEN [i \in DOMAIN ret.batch_ix |->
            <<PyInt(ret.batch_ix[i][1]), PyInt(ret.batch_ix[i][2])>>]
    ELSE [i \in DOMAIN ret.batch_ix |->
            <<ret.trip_type[i], PyInt(ret.batch_ix[i][1]), PyInt(ret.batch_ix[i][2])>>]

(***************************************************************************)
(* C13.  Batch bounds: a __next__() that returns a batch from position p   *)
(* of a sequence of N items returns the items at the indices               *)
(* [p, min(p + batch_size, N)) of the sequence, in its order, and leaves   *)
(* the position at min(p + batch_size, N).                                 *)
(***************************************************************************)
C13_BatchBounds ==
    [][(ret'.op = "next" /\ ret'.raised = "none") =>
          LET p == trip_iter
              N == Len(Sequence)
              end == IF p + bs < N THEN p + bs ELSE N
          IN  /\ YieldedItems' = SubSeq(Sequence, p + 1, end)
              /\ trip_iter' = end
              /\ Sequence' = Sequence
    ]_vars

\* a batch came back that the end of the sequence cut short of batch_size
\* items, and the position stands at the length of the sequence
C13_Witness ==
    /\ Returned
    /\ Len(YieldedItems) >= 1
    /\ Len(YieldedItems) < bs
    /\ trip_iter = Len(Sequence)

\* the number of batches returned since the position was 0: every batch moves
\* the position on by batch_size, the last one possibly by less
BatchesYielded == (trip_iter + bs - 1) \div bs

(***************************************************************************)
(* C14.  Reported count versus yielded batches, for batch_size >= 1: when  *)
(* __next__() raises StopIteration at the end of an epoch over N items,    *)
(* the number of batches the epoch returned is len(sampler) + 1 if         *)
(* N mod batch_size is not 0, and len(sampler) if it is 0.                 *)
(***************************************************************************)
C14_YieldedVersusLen ==
    (bs >= 1 /\ has_trip_iter /\ ret.op = "next" /\ ret.raised = "StopIteration") =>
        BatchesYielded =
            __len__ + (IF Len(Sequence) % bs # 0 THEN 1 ELSE 0)

\* the last call was a __next__() that raised StopIteration on an initialised
\* position: the end of an epoch
Exhausted == has_trip_iter /\ ret.op = "next" /\ ret.raised = "StopIteration"

\* the batch the last __next__() returned is the slice of the sequence that
\* ends at the position and starts at a multiple of batch_size, so that the
\* batches returned since position 0 tile the prefix [0, position) in order
BatchesTilePrefix ==
    Returned =>
        /\ Len(YieldedItems) <= trip_iter
        /\ trip_iter <= Len(Sequence)
        /\ YieldedItems =
              SubSeq(Sequence, trip_iter - Len(YieldedItems) + 1, trip_iter)
        /\ (trip_iter - Len(YieldedItems)) % bs = 0

C16_CursorRange ==
    [][bs >= 1 =>
          /\ has_trip_iter' => (0 <= trip_iter' /\ trip_iter' <= Len(Sequence'))
          /\ (has_trip_iter /\ ret'.op = "next") => trip_iter' >= trip_iter
    ]_vars

\* __next__() has moved the position from 0 up to the length of a sequence of
\* two items or more
C16_Witness ==
    /\ has_trip_iter
    /\ Returned
    /\ Len(Sequence) >= 2
    /\ trip_iter = Len(Sequence)

(***************************************************************************)
(* C17.  Lookup of an absent key: a call of _get_labels on an array with   *)
(* a row that is no key of the index raises no error, and the label row    *)
(* of such a row is all zeros, as for a key with no completion.            *)
(***************************************************************************)
C17_AbsentKeyGivesZeroRow ==
    [][ret'.op = "labels" =>
          \A i \in DOMAIN ret'.batch_samples :
              ret'.batch_samples[i] \notin DOMAIN index =>
                  /\ ret'.raised = "none"
                  /\ ret'.batch_lbls[i] = [c \in 1 .. num_ents |-> 0]
    ]_vars

\* _get_labels has returned a row of zeros for a key of integers that the
\* index built at construction does not hold, and has put the key in the index
C17_Witness ==
    /\ ret.op = "labels"
    /\ ret.raised = "none"
    /\ inverse
    /\ \E i \in DOMAIN ret.batch_samples :
          /\ ret.batch_samples[i] \notin DOMAIN index0
          /\ ret.batch_samples[i] \in DOMAIN index
          /\ \A c \in DOMAIN ret.batch_lbls[i] : ret.batch_lbls[i][c] = 0

(***************************************************************************)
(* C18.  Row alignment of a multi-label batch: in every batch that         *)
(* One_to_N.__next__() returns from position p, row i of the query         *)
(* indices, row i of the labels and, in non-inverse mode, type flag i are  *)
(* those of the key at index p + i of self.keys: the query indices are     *)
(* its (relation, entity) pair, the type flag is its "head"/"tail" tag     *)
(* (no type flags are returned in inverse mode), and the label row is the  *)
(* row of its completions.                                                 *)
(***************************************************************************)
C18_RowAlignment ==
    [][(cls = "One_to_N" /\ ret'.op = "next" /\ ret'.raised = "none") =>
          /\ Len(ret'.batch_lbls) = Len(ret'.batch_ix)
          /\ Len(ret'.trip_type) = (IF inverse THEN 0 ELSE Len(ret'.batch_ix))
          /\ \A i \in DOMAIN ret'.batch_ix :
                /\ trip_iter + i <= Len(keys)
                /\ LET key == keys[trip_iter + i]
                   IN  /\ IF inverse
                          THEN ret'.batch_ix[i] = <<key[1][2], key[2][2]>>
                          ELSE /\ ret'.trip_type[i] = key[1]
                               /\ ret'.batch_ix[i] = <<key[2][2], key[3][2]>>
                       /\ ret'.batch_lbls[i] =
                             [c \in 1 .. num_ents |->
                                IF c - 1 \in Range(index0[key]) THEN 1 ELSE 0]
    ]_vars
====
